---- MODULE Spec2Model ----
(***************************************************************************)
(* Model of queue.AMQPServerConnection (objectvault/queue-interface): one  *)
(* logical broker connection with multi-server failover and a cache of     *)
(* channels keyed by name.  Every exported method is one atomic action     *)
(* (callers serialize access); the AMQP transport is the environment: it   *)
(* accepts a dial for the URIs in `up`, and channel open, close, declare,  *)
(* publish and get calls succeed or fail nondeterministically.             *)
(***************************************************************************)
EXTENDS Integers, Sequences, FiniteSets, TLC

\* ---------------------------------------------------------------- bounds
MaxServers == 2
MaxConns == 2
MaxChans == 2
MaxRequeue == 3
MaxClock == 2
MaxStack == 3
MaxCallers == 2

\* ------------------------------------------------------- values and errors
NoConn == [id |-> 0, uri |-> ""]
NoChan == [id |-> 0, conn |-> 0]
EmptyMap == [k \in {} |-> NoChan]
NilChannels == [isNil |-> TRUE, map |-> EmptyMap]

ErrNoSettings == "[AMQPServerConnection] No Connection Settings"
ErrUnableToConnect == "[openConnection] Unable to Connect to any Servers"
ErrNoServerDef == "[queueURI] Server Configuration Missing Server Definition"
ErrInvalidServerDef == "[queueURI] Server Configuration Contains Invalid Server Definitions"
ErrNoConnection == "[OpenChannel] NO Connection Established"
ErrMissingQueueName == "[queueName] Missing Queue Name"
ErrTransport == "amqp: transport error"
ErrMarshal == "json: marshal error"

\* shared.AMQPConnection records the configuration can hold
AMQPConnection(user, password, hasServer, host, port, vhost) ==
  [User |-> user, Password |-> password, HasServer |-> hasServer,
   Host |-> host, Port |-> port, VHost |-> vhost]

srvNoDef == AMQPConnection("", "", FALSE, "", 0, "")
srvNoHost == AMQPConnection("u", "", TRUE, "", 5672, "")
srvAlpha == AMQPConnection("", "", TRUE, "alpha", 0, "")
srvBeta == AMQPConnection("u", "pw", TRUE, "beta", 5672, "vh")

ServerOrder == <<srvNoDef, srvAlpha, srvNoHost, srvBeta>>
ServerPool == {ServerOrder[i] : i \in DOMAIN ServerOrder}

\* the server lists a configuration is drawn from: up to MaxServers records
\* of the pool, in the pool's order
RECURSIVE pick(_)
pick(idx) ==
  IF idx = {} THEN <<>>
  ELSE LET i == CHOOSE x \in idx : \A y \in idx : x <= y
       IN <<ServerOrder[i]>> \o pick(idx \ {i})
ServerLists ==
  {pick(idx) : idx \in {x \in SUBSET DOMAIN ServerOrder : Cardinality(x) <= MaxServers}}
Prefixes == {"", "pre"}
QueueNames == {"", "work"}
ChannelNames == {"ctl"}
Purposes == {"pub"}

\* one transport call, as the transport sees it
Ev(call, target, h, ok, flags, ex) ==
  [call |-> call, target |-> target, h |-> h, ok |-> ok, flags |-> flags, ex |-> ex]

VARIABLES connection, channels, servers, prefix, queue,
          up, liveConns, liveChans, declFailed, calls, ret,
          action, now, aret, requeues,
          mail, mret, written,
          pc, held, overlap

mgrVars == <<connection, channels, servers, prefix, queue,
             up, liveConns, liveChans, declFailed, calls, ret>>
envVars == <<action, now, aret, requeues>>
msgVars == <<mail, mret, written>>
raceVars == <<pc, held, overlap>>
vars == <<mgrVars, envVars, msgVars, raceVars>>

\* --------------------------------------------------------------- queueURI
queueURI(con) ==
  LET user == IF con.User = "" THEN "guest" ELSE con.User
      password == IF con.Password = "" THEN "guest" ELSE con.Password
      auth == IF user # ""
              THEN IF password # "" THEN user \o ":" \o password ELSE user
              ELSE ""
      conn == IF con.Port # 0 THEN con.Host \o ":" \o ToString(con.Port)
              ELSE con.Host
  IN IF ~con.HasServer THEN [uri |-> "", err |-> ErrNoServerDef]
     ELSE IF con.Host = "" THEN [uri |-> "", err |-> ErrInvalidServerDef]
     ELSE IF auth # ""
          THEN IF con.VHost # ""
               THEN [uri |-> "amqp://" \o auth \o "@" \o conn \o "/" \o con.VHost, err |-> ""]
               ELSE [uri |-> "amqp://" \o auth \o "@" \o conn, err |-> ""]
          ELSE IF con.VHost # ""
               THEN [uri |-> "amqp://" \o conn \o "/" \o con.VHost, err |-> ""]
               ELSE [uri |-> "amqp://" \o conn, err |-> ""]

URIs == {queueURI(s).uri : s \in {p \in ServerPool : queueURI(p).err = ""}}

\* ------------------------------------------------------- manager state
\* The receiver *AMQPServerConnection together with the transport's books
\* and the outcome of the call in progress.
Cur ==
  [connection |-> connection, channels |-> channels, servers |-> servers,
   prefix |-> prefix, queue |-> queue,
   liveConns |-> liveConns, liveChans |-> liveChans, declFailed |-> declFailed,
   calls |-> <<>>, err |-> "", val |-> 0]

\* A handle the transport returns is a new pointer: it differs from every
\* handle that is still open or still referenced by the manager.
cachedChans(c) == {c.channels.map[k] : k \in DOMAIN c.channels.map}
usedConns(c) ==
  c.liveConns \cup {c.connection.id} \cup {h.conn : h \in c.liveChans \cup cachedChans(c)}
usedChans(c) == {h.id : h \in c.liveChans \cup cachedChans(c)}
newHandle(used) == CHOOSE n \in 1..(Cardinality(used) + 1) : n \notin used

Injective(f) == \A i, j \in DOMAIN f : f[i] = f[j] => i = j
Orders(S) == {f \in [1..Cardinality(S) -> S] : Injective(f)}

\* ------------------------------------------------------------- queueName
queueNameNoDefault(c, name) ==
  IF name = "" THEN [name |-> "", err |-> ErrMissingQueueName]
  ELSE IF c.prefix = "" THEN [name |-> name, err |-> ""]
  ELSE [name |-> c.prefix \o "-" \o name, err |-> ""]

queueName(c, name) ==
  LET n == IF name = "" THEN c.queue ELSE name
  IN IF n = "" THEN [name |-> "", err |-> ErrMissingQueueName]
     ELSE IF c.prefix = "" THEN [name |-> n, err |-> ""]
     ELSE [name |-> c.prefix \o "-" \o n, err |-> ""]

\* ------------------------------------------------------------ getChannel
getChannel(c, name) ==
  IF ~c.channels.isNil /\ name \in DOMAIN c.channels.map
  THEN c.channels.map[name]
  ELSE NoChan

\* -------------------------------------------------------- openConnection
\* The candidate the i-th iteration (0-based) of the loop looks at.
candidate(s, i) == s[1]

RECURSIVE dialLoop(_, _, _, _, _)
dialLoop(s, u, nid, i, log) ==
  IF i >= Len(s)
  THEN [conn |-> NoConn, err |-> ErrUnableToConnect, calls |-> log]
  ELSE LET r == queueURI(candidate(s, i))
       IN IF r.err # "" THEN dialLoop(s, u, nid, i + 1, log)
          ELSE IF r.uri \in u
               THEN [conn |-> [id |-> nid, uri |-> r.uri], err |-> "",
                     calls |-> Append(log, Ev("dial", r.uri, nid, TRUE, {}, ""))]
               ELSE dialLoop(s, u, nid, i + 1,
                             Append(log, Ev("dial", r.uri, 0, FALSE, {}, "")))

openConnectionNoEmptyCheck(c, u) ==
  dialLoop(c.servers, u, newHandle(usedConns(c)), 0, <<>>)

openConnection(c, u) ==
  IF Len(c.servers) = 0
  THEN [conn |-> NoConn, err |-> ErrNoSettings, calls |-> <<>>]
  ELSE dialLoop(c.servers, u, newHandle(usedConns(c)), 0, <<>>)

\* -------------------------------------------------------- OpenConnection
OpenConnectionAlwaysDial(c, u) ==
  LET r == openConnection(c, u)
  IN IF r.err # ""
     THEN [c EXCEPT !.err = r.err, !.val = 0, !.calls = c.calls \o r.calls]
     ELSE [c EXCEPT !.connection = r.conn,
                    !.liveConns = c.liveConns \cup {r.conn.id},
                    !.calls = c.calls \o r.calls,
                    !.err = "", !.val = r.conn.id]

OpenConnection(c, u) ==
  IF c.connection # NoConn
  THEN [c EXCEPT !.err = "", !.val = c.connection.id]
  ELSE LET r == openConnection(c, u)
       IN IF r.err # ""
          THEN [c EXCEPT !.err = r.err, !.val = 0, !.calls = c.calls \o r.calls]
          ELSE [c EXCEPT !.connection = r.conn,
                         !.liveConns = c.liveConns \cup {r.conn.id},
                         !.calls = c.calls \o r.calls,
                         !.err = "", !.val = r.conn.id]

\* ------------------------------------------------------- CloseConnection
\* order: the order in which the range over the map visits the channels;
\* chFail: the keys whose Close reports an error; connFail: whether the
\* connection's Close reports an error.
RECURSIVE closeUntilError(_, _, _, _)
closeUntilError(c, order, chFail, i) ==
  IF i > Len(order) THEN <<>>
  ELSE <<Ev("channel.Close", order[i], c.channels.map[order[i]].id, order[i] \notin chFail, {}, "")>>
       \o (IF order[i] \in chFail THEN <<>> ELSE closeUntilError(c, order, chFail, i + 1))

closeCallsStopOnError(c, order, chFail) == closeUntilError(c, order, chFail, 1)

closeCalls(c, order, chFail) ==
  [i \in 1..Len(order) |->
     Ev("channel.Close", order[i], c.channels.map[order[i]].id, order[i] \notin chFail, {}, "")]

CloseConnectionKeepCache(c, order, chFail, connFail) ==
  IF c.connection # NoConn
  THEN LET chs == IF c.channels.isNil THEN <<>> ELSE closeCalls(c, order, chFail)
           closed == {c.channels.map[chs[i].target] : i \in 1..Len(chs)}
       IN [c EXCEPT !.connection = NoConn,
                    !.liveChans = c.liveChans \ closed,
                    !.liveConns = c.liveConns \ {c.connection.id},
                    !.calls = c.calls \o chs \o
                              <<Ev("connection.Close", c.connection.uri, c.connection.id, ~connFail, {}, "")>>,
                    !.err = IF connFail THEN ErrTransport ELSE "",
                    !.val = 0]
  ELSE [c EXCEPT !.err = "", !.val = 0]

CloseConnectionKeepOnError(c, order, chFail, connFail) ==
  IF c.connection # NoConn
  THEN LET chs == IF c.channels.isNil THEN <<>> ELSE closeCalls(c, order, chFail)
           closed == {c.channels.map[chs[i].target] : i \in 1..Len(chs)}
       IN [c EXCEPT !.channels = NilChannels,
                    !.connection = IF connFail THEN c.connection ELSE NoConn,
                    !.liveChans = c.liveChans \ closed,
                    !.liveConns = c.liveConns \ {c.connection.id},
                    !.calls = c.calls \o chs \o
                              <<Ev("connection.Close", c.connection.uri, c.connection.id, ~connFail, {}, "")>>,
                    !.err = IF connFail THEN ErrTransport ELSE "",
                    !.val = 0]
  ELSE [c EXCEPT !.err = "", !.val = 0]

CloseConnectionSkipChannels(c, order, chFail, connFail) ==
  IF c.connection # NoConn
  THEN [c EXCEPT !.channels = NilChannels,
                 !.connection = NoConn,
                 !.liveConns = c.liveConns \ {c.connection.id},
                 !.calls = c.calls \o
                           <<Ev("connection.Close", c.connection.uri, c.connection.id, ~connFail, {}, "")>>,
                 !.err = IF connFail THEN ErrTransport ELSE "",
                 !.val = 0]
  ELSE [c EXCEPT !.err = "", !.val = 0]

CloseConnection(c, order, chFail, connFail) ==
  IF c.connection # NoConn
  THEN LET chs == IF c.channels.isNil THEN <<>> ELSE closeCalls(c, order, chFail)
           closed == {c.channels.map[chs[i].target] : i \in 1..Len(chs)}
       IN [c EXCEPT !.channels = NilChannels,
                    !.connection = NoConn,
                    !.liveChans = c.liveChans \ closed,
                    !.declFailed = c.declFailed \ closed,
                    !.liveConns = c.liveConns \ {c.connection.id},
                    !.calls = c.calls \o chs \o
                              <<Ev("connection.Close", c.connection.uri, c.connection.id, ~connFail, {}, "")>>,
                    !.err = IF connFail THEN ErrTransport ELSE "",
                    !.val = 0]
  ELSE [c EXCEPT !.err = "", !.val = 0]

\* ------------------------------------------------------- ResetConnection
ResetConnection(c, u, order, chFail, connFail) ==
  LET d == IF c.connection # NoConn THEN CloseConnection(c, order, chFail, connFail) ELSE c
  IN OpenConnection(d, u)

\* ----------------------------------------------------------- the setters
SetConnection(c, s, order, chFail, connFail) ==
  LET d == IF c.connection # NoConn THEN CloseConnection(c, order, chFail, connFail) ELSE c
  IN [d EXCEPT !.servers = s, !.err = "", !.val = 0]

SetPrefixNoClose(c, p, order, chFail, connFail) ==
  [c EXCEPT !.prefix = p, !.err = "", !.val = 0]

SetPrefix(c, p, order, chFail, connFail) ==
  LET d == IF c.connection # NoConn THEN CloseConnection(c, order, chFail, connFail) ELSE c
  IN [d EXCEPT !.prefix = p, !.err = "", !.val = 0]

SetDefaultQueue(c, name) ==
  [c EXCEPT !.queue = name, !.err = "", !.val = 0]

\* ----------------------------------------------------------- OpenChannel
\* ok: whether the transport's connection.Channel() succeeds.
OpenChannelNoCacheLookup(c, name, ok) ==
  IF c.connection = NoConn
  THEN [c EXCEPT !.err = ErrNoConnection, !.val = 0]
  ELSE LET m == IF c.channels.isNil THEN EmptyMap ELSE c.channels.map
           ch == [id |-> newHandle(usedChans(c)), conn |-> c.connection.id]
       IN IF ~ok
          THEN [c EXCEPT !.channels = [isNil |-> FALSE, map |-> m],
                         !.calls = Append(c.calls, Ev("connection.Channel", name, 0, FALSE, {}, "")),
                         !.err = ErrTransport, !.val = 0]
          ELSE [c EXCEPT !.channels = [isNil |-> FALSE,
                                       map |-> [k \in DOMAIN m \cup {name} |->
                                                  IF k = name THEN ch ELSE m[k]]],
                         !.liveChans = c.liveChans \cup {ch},
                         !.calls = Append(c.calls, Ev("connection.Channel", name, ch.id, TRUE, {}, "")),
                         !.err = "", !.val = ch.id]

OpenChannel(c, name, ok) ==
  IF c.connection = NoConn
  THEN [c EXCEPT !.err = ErrNoConnection, !.val = 0]
  ELSE IF getChannel(c, name) # NoChan
  THEN [c EXCEPT !.err = "", !.val = getChannel(c, name).id]
  ELSE LET m == IF c.channels.isNil THEN EmptyMap ELSE c.channels.map
           ch == [id |-> newHandle(usedChans(c)), conn |-> c.connection.id]
       IN IF ~ok
          THEN [c EXCEPT !.channels = [isNil |-> FALSE, map |-> m],
                         !.calls = Append(c.calls, Ev("connection.Channel", name, 0, FALSE, {}, "")),
                         !.err = ErrTransport, !.val = 0]
          ELSE [c EXCEPT !.channels = [isNil |-> FALSE,
                                       map |-> [k \in DOMAIN m \cup {name} |->
                                                  IF k = name THEN ch ELSE m[k]]],
                         !.liveChans = c.liveChans \cup {ch},
                         !.calls = Append(c.calls, Ev("connection.Channel", name, ch.id, TRUE, {}, "")),
                         !.err = "", !.val = ch.id]

\* ------------------------------------------------------ OpenQueueChannel
\* chOk: whether connection.Channel() succeeds; declOk: whether
\* channel.QueueDeclare succeeds.
OpenQueueChannelRawKey(c, name, q, create, chOk, declOk) ==
  LET qn == queueName(c, q)
      chq == name \o "." \o q
  IN IF qn.err # "" THEN [c EXCEPT !.err = qn.err, !.val = 0]
     ELSE IF getChannel(c, chq) # NoChan
     THEN [c EXCEPT !.err = "", !.val = getChannel(c, chq).id]
     ELSE LET r == OpenChannel(c, chq, chOk)
          IN IF r.err # "" THEN r
             ELSE IF create
             THEN LET d == [r EXCEPT !.calls =
                              Append(r.calls, Ev("channel.QueueDeclare", qn.name, r.val,
                                                 declOk, {"durable"}, ""))]
                  IN IF ~declOk
                     THEN [d EXCEPT !.declFailed = r.declFailed \cup {r.channels.map[chq]},
                                    !.err = ErrTransport, !.val = 0]
                     ELSE [d EXCEPT !.channels.map[chq] = [id |-> r.val, conn |-> r.connection.id]]
             ELSE [r EXCEPT !.channels.map[chq] = [id |-> r.val, conn |-> r.connection.id]]

OpenQueueChannelAlwaysDeclare(c, name, q, create, chOk, declOk) ==
  LET qn == queueName(c, q)
      chq == name \o "." \o qn.name
  IN IF qn.err # "" THEN [c EXCEPT !.err = qn.err, !.val = 0]
     ELSE IF getChannel(c, chq) # NoChan
     THEN [c EXCEPT !.err = "", !.val = getChannel(c, chq).id]
     ELSE LET r == OpenChannel(c, chq, chOk)
          IN IF r.err # "" THEN r
             ELSE IF TRUE
             THEN LET d == [r EXCEPT !.calls =
                              Append(r.calls, Ev("channel.QueueDeclare", qn.name, r.val,
                                                 declOk, {"durable"}, ""))]
                  IN IF ~declOk
                     THEN [d EXCEPT !.declFailed = r.declFailed \cup {r.channels.map[chq]},
                                    !.err = ErrTransport, !.val = 0]
                     ELSE [d EXCEPT !.channels.map[chq] = [id |-> r.val, conn |-> r.connection.id]]
             ELSE [r EXCEPT !.channels.map[chq] = [id |-> r.val, conn |-> r.connection.id]]

OpenQueueChannelEvictOnDeclareError(c, name, q, create, chOk, declOk) ==
  LET qn == queueName(c, q)
      chq == name \o "." \o qn.name
  IN IF qn.err # "" THEN [c EXCEPT !.err = qn.err, !.val = 0]
     ELSE IF getChannel(c, chq) # NoChan
     THEN [c EXCEPT !.err = "", !.val = getChannel(c, chq).id]
     ELSE LET r == OpenChannel(c, chq, chOk)
          IN IF r.err # "" THEN r
             ELSE IF create
             THEN LET d == [r EXCEPT !.calls =
                              Append(r.calls, Ev("channel.QueueDeclare", qn.name, r.val,
                                                 declOk, {"durable"}, ""))]
                  IN IF ~declOk
                     THEN [d EXCEPT !.declFailed = r.declFailed \cup {r.channels.map[chq]},
                                    !.channels.map = [k \in DOMAIN r.channels.map \ {chq} |->
                                                        r.channels.map[k]],
                                    !.err = ErrTransport, !.val = 0]
                     ELSE [d EXCEPT !.channels.map[chq] = [id |-> r.val, conn |-> r.connection.id]]
             ELSE [r EXCEPT !.channels.map[chq] = [id |-> r.val, conn |-> r.connection.id]]

OpenQueueChannelDeclareOnHit(c, name, q, create, chOk, declOk) ==
  LET qn == queueName(c, q)
      chq == name \o "." \o qn.name
  IN IF qn.err # "" THEN [c EXCEPT !.err = qn.err, !.val = 0]
     ELSE IF getChannel(c, chq) # NoChan
     THEN IF create
          THEN [c EXCEPT !.calls = Append(c.calls, Ev("channel.QueueDeclare", qn.name,
                                                      getChannel(c, chq).id, declOk, {"durable"}, "")),
                         !.err = IF declOk THEN "" ELSE ErrTransport,
                         !.val = IF declOk THEN getChannel(c, chq).id ELSE 0]
          ELSE [c EXCEPT !.err = "", !.val = getChannel(c, chq).id]
     ELSE LET r == OpenChannel(c, chq, chOk)
          IN IF r.err # "" THEN r
             ELSE IF create
             THEN LET d == [r EXCEPT !.calls =
                              Append(r.calls, Ev("channel.QueueDeclare", qn.name, r.val,
                                                 declOk, {"durable"}, ""))]
                  IN IF ~declOk
                     THEN [d EXCEPT !.declFailed = r.declFailed \cup {r.channels.map[chq]},
                                    !.err = ErrTransport, !.val = 0]
                     ELSE [d EXCEPT !.channels.map[chq] = [id |-> r.val, conn |-> r.connection.id]]
             ELSE [r EXCEPT !.channels.map[chq] = [id |-> r.val, conn |-> r.connection.id]]

OpenQueueChannel(c, name, q, create, chOk, declOk) ==
  LET qn == queueName(c, q)
      chq == name \o "." \o qn.name
  IN IF qn.err # "" THEN [c EXCEPT !.err = qn.err, !.val = 0]
     ELSE IF getChannel(c, chq) # NoChan
     THEN [c EXCEPT !.err = "", !.val = getChannel(c, chq).id]
     ELSE LET r == OpenChannel(c, chq, chOk)
          IN IF r.err # "" THEN r
             ELSE IF create
             THEN LET d == [r EXCEPT !.calls =
                              Append(r.calls, Ev("channel.QueueDeclare", qn.name, r.val,
                                                 declOk, {"durable"}, ""))]
                  IN IF ~declOk
                     THEN [d EXCEPT !.declFailed = r.declFailed \cup {r.channels.map[chq]},
                                    !.err = ErrTransport, !.val = 0]
                     ELSE [d EXCEPT !.channels.map[chq] = [id |-> r.val, conn |-> r.connection.id]]
             ELSE [r EXCEPT !.channels.map[chq] = [id |-> r.val, conn |-> r.connection.id]]

\* ---------------------------------------------------- QueuePublishString
\* pubOk: whether channel.Publish succeeds.
QueuePublishStringRetry(c, channel, q, chOk, pubOk) ==
  LET r == OpenQueueChannel(c, channel, q, FALSE, chOk, TRUE)
      pub == Ev("channel.Publish", queueName(c, q).name, r.val, pubOk, {"text/plain"}, "")
  IN IF r.err # "" THEN r
     ELSE [r EXCEPT !.calls = IF pubOk THEN Append(r.calls, pub) ELSE r.calls \o <<pub, pub>>,
                    !.err = IF pubOk THEN "" ELSE ErrTransport,
                    !.val = 0]

QueuePublishString(c, channel, q, chOk, pubOk) ==
  LET r == OpenQueueChannel(c, channel, q, FALSE, chOk, TRUE)
  IN IF r.err # "" THEN r
     ELSE [r EXCEPT !.calls = Append(r.calls, Ev("channel.Publish", queueName(c, q).name, r.val,
                                                 pubOk, {"text/plain"}, "")),
                    !.err = IF pubOk THEN "" ELSE ErrTransport,
                    !.val = 0]

\* ------------------------------------------------------ QueuePublishJSON
\* marshalOk: whether json.Marshal of the message succeeds.
QueuePublishJSON(c, channel, q, chOk, marshalOk, pubOk) ==
  LET r == OpenQueueChannel(c, channel, q, FALSE, chOk, TRUE)
  IN IF r.err # "" THEN r
     ELSE IF ~marshalOk THEN [r EXCEPT !.err = ErrMarshal, !.val = 0]
     ELSE [r EXCEPT !.calls = Append(r.calls, Ev("channel.Publish", queueName(c, q).name, r.val,
                                                 pubOk, {"application/json"}, "")),
                    !.err = IF pubOk THEN "" ELSE ErrTransport,
                    !.val = 0]

\* --------------------------------------------------------- QueueRetrieve
\* got: what channel.Get answers: "err", "empty" or "msg".  The call is
\* logged with that answer; autoAck is false, so no flag is set.
GetEv(target, h, got) ==
  [call |-> "channel.Get", target |-> target, h |-> h, ok |-> got # "err",
   flags |-> {}, ex |-> "", answer |-> got]

QueueRetrieveEmptyIsError(c, channel, q, chOk, got) ==
  LET r == OpenQueueChannel(c, channel, q, FALSE, chOk, TRUE)
  IN IF r.err # "" THEN r
     ELSE [r EXCEPT !.calls = Append(r.calls, GetEv(queueName(c, q).name, r.val, got)),
                    !.err = IF got = "msg" THEN "" ELSE ErrTransport,
                    !.val = IF got = "msg" THEN 1 ELSE 0]

\* val: 1 stands for the pointer to the delivery, 0 for nil.
QueueRetrieve(c, channel, q, chOk, got) ==
  LET r == OpenQueueChannel(c, channel, q, FALSE, chOk, TRUE)
  IN IF r.err # "" THEN r
     ELSE [r EXCEPT !.calls = Append(r.calls, GetEv(queueName(c, q).name, r.val, got)),
                    !.err = IF got = "err" THEN ErrTransport ELSE "",
                    !.val = IF got = "msg" THEN 1 ELSE 0]

\* ============================================================ QueueAction
\* messages.QueueAction: the envelope with its queue-control sub-record.
ErrMissingGUID == "[QueueAction] Missing Message GUID"
ErrMissingType == "[QueueAction] Missing Message Type"
ErrTypeRequired == "[QueueAction] Request Type is Required"
ErrInvalidErrorCode == "[QueueAction] Invalid Error Code"
ErrMissingErrorMessage == "[QueueAction] Missing Error Message"
ErrInvalidMessage == "[QueueAction] Message is Invalid"
ErrJSON == "json: invalid input"

GUIDs == {"", "G-1"}
Types == {"", " ", "Action:Mail", "email:welcome"}
ErrorCodes == {-1, 0, 404}
ErrorMessages == {"", "x", "not found"}

\* strings.TrimSpace and strings.ToLower on the strings the model uses
TrimSpace(s) ==
  IF s = " " THEN ""
  ELSE IF s = " AbC " THEN "AbC"
  ELSE s
ToLower(s) ==
  IF s = "Action:Mail" THEN "action:mail"
  ELSE IF s = "G-1" THEN "g-1"
  ELSE IF s = "Welcome" THEN "welcome"
  ELSE IF s = "AbC" THEN "abc"
  ELSE IF s = "pt_PT" THEN "pt_pt"
  ELSE IF s = "A@B.c" THEN "a@b.c"
  ELSE IF s = "Org" THEN "org"
  ELSE s

\* shared.UTCTimeStamp at clock value n: an RFC 3339 UTC string
UTCTimeStamp(n) == "2022-01-01T00:00:0" \o ToString(n) \o "Z"

\* params and props are pointers to maps: NoMap is nil, a string names the
\* map pointed to.
NoMap == "nil"
Maps == {NoMap, "{k:v}"}

ZeroQueueAction ==
  [version |-> 0, guid |-> "", atype |-> "", params |-> NoMap, props |-> NoMap,
   created |-> "", requeueCount |-> 0, errorCode |-> 0, errorTime |-> "",
   errorMessage |-> ""]

\* Each operation yields the envelope after the call with what it returned.
NewQueueActionWithGUID(guid, t) ==
  LET g == TrimSpace(t)
      ty == TrimSpace(t)
  IN IF g = "" THEN [m |-> ZeroQueueAction, made |-> FALSE, err |-> ErrMissingGUID]
     ELSE IF ty = "" THEN [m |-> ZeroQueueAction, made |-> FALSE, err |-> ErrMissingType]
     ELSE [m |-> [ZeroQueueAction EXCEPT !.guid = ToLower(g), !.atype = ToLower(ty)],
           made |-> TRUE, err |-> ""]

IsValid(m) == m.guid # "" /\ m.atype # ""

Version(m) == IF m.version > 0 THEN m.version ELSE 1

SetType(m, t) ==
  IF TrimSpace(t) = "" THEN [m |-> m, err |-> ErrTypeRequired, val |-> ""]
  ELSE [m |-> [m EXCEPT !.atype = ToLower(TrimSpace(t))], err |-> "", val |-> m.atype]

SetParameters(m, p) == [m |-> [m EXCEPT !.params = p], val |-> m.params]
SetProperties(m, p) == [m |-> [m EXCEPT !.props = p], val |-> m.props]

RequeueCount(m) == m.requeueCount

ResetCount(m) == [m |-> [m EXCEPT !.requeueCount = 0], val |-> m.requeueCount]

RequeueSkipsOne(m) ==
  [m |-> [m EXCEPT !.requeueCount = m.requeueCount + 2], val |-> m.requeueCount + 2]

Requeue(m) ==
  [m |-> [m EXCEPT !.requeueCount = m.requeueCount + 1], val |-> m.requeueCount + 1]

SetError(m, c, msg, clock) ==
  IF c > 0 THEN [m |-> m, err |-> ErrInvalidErrorCode]
  ELSE IF msg = "" THEN [m |-> m, err |-> ErrMissingErrorMessage]
  ELSE [m |-> [m EXCEPT !.errorCode = c, !.errorMessage = msg,
                        !.errorTime = UTCTimeStamp(clock)],
        err |-> ""]

ErrorCode(m) == m.errorCode
ErrorMessage(m) == m.errorMessage
IsError(m) == m.errorCode > 0

\* ---------------------------------------------- MarshalJSON / UnmarshalJSON
\* A JSON object is a function from its keys to their values; a key the
\* encoder omits is not in the domain.  NotJSON is input that does not parse.
\* NoPayload is the nil byte slice a failed encoding returns.
EmptyObject == <<>>
NoPayload == "!" :> "nil"
NotJSON == "!" :> "syntax error"
Member(k, v, present) == IF present THEN k :> v ELSE EmptyObject
Has(obj, k) == k \in DOMAIN obj
Field(obj, k, zero) == IF k \in DOMAIN obj THEN obj[k] ELSE zero

\* the anonymous struct behind `queue`: every member is omitempty
QueueBlock(m) ==
  LET count == IF m.requeueCount > 0 THEN m.requeueCount ELSE 0
      code == IF m.errorCode > 0 THEN m.errorCode ELSE 0
      time == IF m.errorCode > 0 THEN m.errorTime ELSE ""
      msg == IF m.errorCode > 0 THEN m.errorMessage ELSE ""
  IN Member("count", count, count # 0) @@ Member("errorcode", code, code # 0)
     @@ Member("errortime", time, time # "") @@ Member("errormsg", msg, msg # "")

\* The receiver is a value: the method works on a copy, so the caller's
\* envelope (m in the result) is the one passed in.  `queue` holds a non-nil
\* pointer, which omitempty never omits.
Encode(copy) ==
  ("version" :> copy.version) @@ ("id" :> copy.guid) @@ ("type" :> copy.atype)
  @@ Member("params", copy.params, copy.params # NoMap)
  @@ Member("props", copy.props, copy.props # NoMap)
  @@ ("created" :> copy.created) @@ ("queue" :> QueueBlock(copy))

MarshalJSON(m, clock) ==
  IF ~IsValid(m) THEN [m |-> m, out |-> NoPayload, err |-> ErrInvalidMessage]
  ELSE LET copy == IF m.created = "" THEN [m EXCEPT !.created = UTCTimeStamp(clock)] ELSE m
       IN [m |-> m, out |-> Encode(copy), err |-> ""]

\* The control block is decoded from the key named in the field's tag.
QueueTag == "errormsg"

UnmarshalJSON(m, b) ==
  IF b = NotJSON THEN [m |-> m, err |-> ErrJSON]
  ELSE LET basic == [m EXCEPT !.version = Field(b, "version", 0),
                              !.guid = Field(b, "id", ""),
                              !.atype = Field(b, "type", ""),
                              !.params = Field(b, "params", NoMap),
                              !.props = Field(b, "props", NoMap),
                              !.created = Field(b, "created", "")]
       IN IF QueueTag \notin DOMAIN b THEN [m |-> basic, err |-> ""]
          ELSE LET q == b[QueueTag]
                   counted == [basic EXCEPT !.requeueCount = Field(q, "count", 0)]
               IN IF Field(q, "errorcode", 0) > 0
                  THEN [m |-> [counted EXCEPT !.errorCode = Field(q, "errorcode", 0),
                                              !.errorTime = Field(q, "errortime", ""),
                                              !.errorMessage = Field(q, "errormsg", "")],
                        err |-> ""]
                  ELSE [m |-> counted, err |-> ""]


\* ------------------------------------------- email and invitation messages
\* The message of the header/body generation: a QueueMessage whose header
\* holds version and id and whose body is an ActionMessageContent with the
\* type and the two maps. made says that header and body are set.
NoEntries == <<>>
ZeroMail == [made |-> FALSE, version |-> 0, id |-> "", atype |-> "",
             params |-> NoEntries, props |-> NoEntries]

\* maps.MapWrapper, as the message code uses it: Set(path, v, true) stores v
\* under path, GetDefault(path, d) reads it or yields d.
MapSet(p, path, v) == (path :> v) @@ p
GetDefault(p, path, d) == IF path \in DOMAIN p THEN p[path] ELSE d
\* Clear(p) is handed the wrapper itself: it fails, leaves the map alone, or
\* empties it.
ClearOutcomes == {"error", "none", "all"}
ErrClear == "[MapWrapper] clear failed"
MapClear(p, outcome) ==
  IF outcome = "error" THEN [map |-> p, err |-> ErrClear]
  ELSE IF outcome = "all" THEN [map |-> NoEntries, err |-> ""]
  ELSE [map |-> p, err |-> ""]

ErrNotInitialised == "[ActionMessage] Initialize Message before using"
ErrUntyped == "[EmailMessage] Untyped email requires template"
ErrTemplate == "Email Template is Required"
ErrTo == "Email Destination is Required"
ErrObjectType == "[InviteMessage] Invitation Object Type Required"
ErrCode == "[InviteMessage] Invitation Code is Required"
ErrByUser == "[InviteMessage] From User Name is Required"
ErrObjectName == "[InviteMessage] Object Name is Required"

NewQueueMessageHeader(m, id) ==
  [m EXCEPT !.version = 1,
            !.id = IF TrimSpace(id) # "" THEN ToLower(TrimSpace(id)) ELSE ""]
NewActionMessageContent(m, t) ==
  [m EXCEPT !.atype = IF TrimSpace(t) # "" THEN ToLower(TrimSpace(t)) ELSE "",
            !.params = NoEntries, !.props = NoEntries]
InitQueueAction(m, guid, t) ==
  LET tt == IF TrimSpace(t) # "" THEN "action:" \o TrimSpace(t) ELSE ""
  IN [NewActionMessageContent(NewQueueMessageHeader(m, guid), tt) EXCEPT !.made = TRUE]

ActionMessageIsValid(m) == m.made /\ m.version > 0 /\ m.id # "" /\ m.atype # ""

\* Params() and Props() are nil before the message is initialised
SetParameter(m, path, v) ==
  IF m.made THEN [m |-> [m EXCEPT !.params = MapSet(m.params, path, v)], err |-> ""]
  ELSE [m |-> m, err |-> ErrNotInitialised]
SetStringParameter(m, path, s, clear, outcome) ==
  IF m.made
  THEN IF s = "" /\ clear
       THEN LET c == MapClear(m.params, outcome)
            IN [m |-> [m EXCEPT !.params = c.map], err |-> c.err]
       ELSE [m |-> [m EXCEPT !.params = MapSet(m.params, path, s)], err |-> ""]
  ELSE [m |-> m, err |-> ErrNotInitialised]
SetProperty(m, path, v) ==
  IF m.made THEN [m |-> [m EXCEPT !.props = MapSet(m.props, path, v)], err |-> ""]
  ELSE [m |-> m, err |-> ErrNotInitialised]

\* ---- EmailMessage
Template(m) == IF m.made THEN GetDefault(m.params, "template", "") ELSE ""
SetTemplate(m, t) ==
  IF TrimSpace(t) = "" THEN [m |-> m, err |-> ErrTemplate]
  ELSE SetParameter(m, "template", ToLower(TrimSpace(t)))
DefaultLocale == "en_us"
Locale(m) == IF m.made THEN GetDefault(m.params, "locale", DefaultLocale) ELSE DefaultLocale
SetLocale(m, l, outcome) == SetStringParameter(m, "template", ToLower(l), TRUE, outcome)
To(m) == IF m.made THEN GetDefault(m.params, "to", "") ELSE ""
SetTo(m, to) ==
  IF TrimSpace(to) = "" THEN [m |-> m, err |-> ErrTo]
  ELSE SetParameter(m, "to", ToLower(TrimSpace(to)))

InitEmailMessage(m, guid, et, template) ==
  IF TrimSpace(et) = "" /\ TrimSpace(template) = ""
  THEN [m |-> m, err |-> ErrUntyped]
  ELSE LET t == IF TrimSpace(et) = "" THEN "email" ELSE "email:" \o TrimSpace(et)
           made == InitQueueAction(m, guid, t)
       IN IF TrimSpace(template) # ""
          THEN [m |-> SetTemplate(made, ToLower(TrimSpace(template))).m, err |-> ""]
          ELSE [m |-> made, err |-> ""]
\* the constructor hands out the message only when Init succeeded
NewEmailMessageWithGUID(guid, st, template) == InitEmailMessage(ZeroMail, guid, st, template)

\* IsValid calls m.IsValid(), which is this same method: every frame opens
\* the next one until the stack is used up and the runtime stops the program.
StackOverflow == "fatal error: stack overflow"
BoolText(b) == IF b THEN "true" ELSE "false"
RECURSIVE EmailMessageIsValidFrame(_, _)
EmailMessageIsValidFrame(m, depth) ==
  IF depth >= MaxStack THEN StackOverflow
  ELSE LET inner == EmailMessageIsValidFrame(m, depth + 1)
       IN IF inner = StackOverflow THEN StackOverflow
          ELSE BoolText(inner = "true" /\ Template(m) # "" /\ To(m) # "")
EmailMessageIsValid(m) == EmailMessageIsValidFrame(m, 0)

\* ---- InviteMessage
\* time.Time is a number of seconds; shared.ToJSONTimeStamp writes it as an
\* RFC 3339 UTC string and shared.FromJSONTimeStamp reads it back (nil, here
\* -1, for a string that is no time stamp).
NilTime == -1
Seconds == 0..9
ToJSONTimeStamp(t) == "2030-01-01T00:00:0" \o ToString(t) \o "Z"
FromJSONTimeStamp(s) ==
  IF \E t \in Seconds : ToJSONTimeStamp(t) = s
  THEN CHOOSE t \in Seconds : ToJSONTimeStamp(t) = s
  ELSE NilTime

Code(m) == IF m.made THEN GetDefault(m.params, "code", "") ELSE ""
SetCode(m, code) ==
  IF TrimSpace(code) = "" THEN [m |-> m, err |-> ErrCode]
  ELSE SetProperty(m, "code", ToLower(TrimSpace(code)))
ByUser(m) == IF m.made THEN GetDefault(m.params, "by-name", "") ELSE ""
SetByUser(m, name) ==
  IF TrimSpace(name) = "" THEN [m |-> m, err |-> ErrByUser]
  ELSE SetProperty(m, "by-name", TrimSpace(name))
ObjectName(m) == IF m.made THEN GetDefault(m.params, "objectname", "") ELSE ""
SetObjectName(m, name) ==
  IF TrimSpace(name) = "" THEN [m |-> m, err |-> ErrObjectName]
  ELSE SetProperty(m, "objectname", TrimSpace(name))
\* Expiration: Get of a path that is not there answers (nil, error) or
\* (nil, nil); with no error the nil is asserted to be a string and the call
\* panics. The results are "nil", "panic" and the time read.
ExpirationPanic == "panic: interface conversion: interface {} is nil, not string"
GetMisses == {"error", "nil"}
Expiration(m, miss) ==
  IF ~m.made THEN "nil"
  ELSE IF "expiration" \in DOMAIN m.params
       THEN LET t == FromJSONTimeStamp(m.params["expiration"])
            IN IF t = NilTime THEN "nil" ELSE ToString(t)
       ELSE IF miss = "error" THEN "nil" ELSE ExpirationPanic
SetExpiration(m, t) == SetProperty(m, "expiration", ToJSONTimeStamp(t))

InitInviteMessage(m, guid, ot, code) ==
  IF TrimSpace(ot) = "" THEN [m |-> m, err |-> ErrObjectType]
  ELSE LET e == InitEmailMessage(m, guid, "invite:" \o ToLower(TrimSpace(ot)), "")
       IN IF e.err # "" THEN e ELSE SetCode(e.m, code)
NewInviteMessageWithGUID(guid, ot, code) == InitInviteMessage(ZeroMail, guid, ot, code)

\* InviteMessage.IsValid: the embedded EmailMessage.IsValid is evaluated
\* first, the invitation's own conjuncts after it.
InviteMessageIsValid(m, miss) ==
  LET base == EmailMessageIsValid(m)
  IN IF base = StackOverflow THEN StackOverflow
     ELSE IF base = "false" THEN "false"
     ELSE IF Code(m) = "" \/ ByUser(m) = "" \/ ObjectName(m) = "" THEN "false"
     ELSE IF Expiration(m, miss) = ExpirationPanic THEN ExpirationPanic
     ELSE BoolText(Expiration(m, miss) # "nil")

Mailed(op, arg, err, val) == [op |-> op, arg |-> arg, err |-> err, val |-> val]

MsgInit ==
  /\ mail = ZeroMail
  /\ mret = Mailed("new", <<>>, "", "")
  /\ written = {}

\* ------------------------------------------- callers that are not serialized
\* Each caller is inside at most one OpenChannel call: pc is the place it has
\* reached, held the channel it got from the transport and has not stored yet.
Callers == 1..MaxCallers
RaceInit ==
  /\ pc = [p \in Callers |-> "idle"]
  /\ held = [p \in Callers |-> NoChan]
  /\ overlap = FALSE

\* ------------------------------------------------------------- actions
InstallManager(r, op, arg) ==
  /\ connection' = r.connection
  /\ channels' = r.channels
  /\ servers' = r.servers
  /\ prefix' = r.prefix
  /\ queue' = r.queue
  /\ liveConns' = r.liveConns
  /\ liveChans' = r.liveChans
  /\ declFailed' = r.declFailed
  /\ calls' = r.calls
  /\ ret' = [op |-> op, arg |-> arg, err |-> r.err, val |-> r.val]
  /\ UNCHANGED <<up, envVars, msgVars>>

\* a call made while no other call is in progress
Install(r, op, arg) == InstallManager(r, op, arg) /\ UNCHANGED raceVars

CachedKeys == IF channels.isNil THEN {} ELSE DOMAIN channels.map

MgrInit ==
  /\ connection = NoConn
  /\ channels = NilChannels
  /\ servers = <<>>
  /\ prefix = ""
  /\ queue = ""
  /\ liveConns = {}
  /\ liveChans = {}
  /\ declFailed = {}
  /\ calls = <<>>
  /\ ret = [op |-> "new", arg |-> "", err |-> "", val |-> 0]

\* What the last call on the envelope was given and what it returned: the
\* scalar arguments, the error, the integer result, and for the JSON methods
\* the bytes read (data), the bytes written (out) and the receiver after
\* the call (rcv).
Returned(op, arg, err, val) ==
  [op |-> op, arg |-> arg, err |-> err, val |-> val,
   data |-> NoPayload, out |-> NoPayload, rcv |-> ZeroQueueAction]

EnvInit ==
  /\ action = ZeroQueueAction
  /\ now = 0
  /\ aret = Returned("new", <<>>, "", 0)
  /\ requeues = 0

Init ==
  /\ MgrInit
  /\ up \in SUBSET URIs
  /\ EnvInit
  /\ MsgInit
  /\ RaceInit

\* The broker side changes which URIs accept a dial.
BrokerChange ==
  /\ \E u \in SUBSET URIs : u # up /\ up' = u
  /\ calls' = <<>>
  /\ ret' = [op |-> "broker", arg |-> "", err |-> "", val |-> 0]
  /\ UNCHANGED <<connection, channels, servers, prefix, queue,
                 liveConns, liveChans, declFailed, envVars, msgVars, raceVars>>

\* The transport's answers a call may meet: for each input the set of
\* outcomes over every answer, then one of them is installed.
CloseOutcomes(f(_, _, _)) ==
  {f(order, chFail, connFail) :
     order \in Orders(CachedKeys), chFail \in SUBSET CachedKeys, connFail \in BOOLEAN}

WithinBounds(r) ==
  Cardinality(r.liveConns) <= MaxConns /\ Cardinality(r.liveChans) <= MaxChans

OpenConnectionCall ==
  LET r == OpenConnection(Cur, up)
  IN WithinBounds(r) /\ Install(r, "OpenConnection", "")

CloseConnectionCall ==
  LET f(o, cf, nf) == CloseConnection(Cur, o, cf, nf)
  IN \E r \in CloseOutcomes(f) : Install(r, "CloseConnection", "")

ResetConnectionCall ==
  LET f(o, cf, nf) == ResetConnection(Cur, up, o, cf, nf)
  IN \E r \in CloseOutcomes(f) : WithinBounds(r) /\ Install(r, "ResetConnection", "")

SetConnectionCall ==
  \E s \in ServerLists :
    LET f(o, cf, nf) == SetConnection(Cur, s, o, cf, nf)
    IN \E r \in CloseOutcomes(f) : Install(r, "SetConnection", s)

SetPrefixCall ==
  \E p \in Prefixes :
    LET f(o, cf, nf) == SetPrefix(Cur, p, o, cf, nf)
    IN \E r \in CloseOutcomes(f) : Install(r, "SetPrefix", p)

SetDefaultQueueCall ==
  \E q \in QueueNames : Install(SetDefaultQueue(Cur, q), "SetDefaultQueue", q)

OpenChannelCall ==
  \E name \in ChannelNames :
    \E r \in {OpenChannel(Cur, name, ok) : ok \in BOOLEAN} :
      WithinBounds(r) /\ Install(r, "OpenChannel", name)

OpenQueueChannelCall ==
  \E name \in Purposes, q \in QueueNames, create \in BOOLEAN :
    \E r \in {OpenQueueChannel(Cur, name, q, create, chOk, declOk) :
                chOk \in BOOLEAN, declOk \in BOOLEAN} :
      WithinBounds(r) /\ Install(r, "OpenQueueChannel", [name |-> name, q |-> q, create |-> create])

QueuePublishStringCall ==
  \E name \in Purposes, q \in QueueNames :
    \E r \in {QueuePublishString(Cur, name, q, chOk, pubOk) :
                chOk \in BOOLEAN, pubOk \in BOOLEAN} :
      WithinBounds(r) /\ Install(r, "QueuePublishString", [name |-> name, q |-> q])

QueuePublishJSONCall ==
  \E name \in Purposes, q \in QueueNames :
    \E r \in {QueuePublishJSON(Cur, name, q, chOk, marshalOk, pubOk) :
                chOk \in BOOLEAN, marshalOk \in BOOLEAN, pubOk \in BOOLEAN} :
      WithinBounds(r) /\ Install(r, "QueuePublishJSON", [name |-> name, q |-> q])

QueueRetrieveCall ==
  \E name \in Purposes, q \in QueueNames :
    \E r \in {QueueRetrieve(Cur, name, q, chOk, got) :
                chOk \in BOOLEAN, got \in {"err", "empty", "msg"}} :
      WithinBounds(r) /\ Install(r, "QueueRetrieve", [name |-> name, q |-> q])

Next ==
  \/ BrokerChange
  \/ OpenConnectionCall
  \/ CloseConnectionCall
  \/ ResetConnectionCall
  \/ SetConnectionCall
  \/ SetPrefixCall
  \/ SetDefaultQueueCall
  \/ OpenChannelCall
  \/ OpenQueueChannelCall
  \/ QueuePublishStringCall
  \/ QueuePublishJSONCall
  \/ QueueRetrieveCall

Spec == Init /\ [][Next]_vars

\* ------------------------------------------------- actions on the envelope
MgrIdle == UNCHANGED <<mgrVars, msgVars, raceVars>>

Tick ==
  /\ now < MaxClock
  /\ now' = now + 1
  /\ aret' = Returned("tick", <<>>, "", 0)
  /\ UNCHANGED <<action, requeues>>
  /\ MgrIdle

NewQueueActionCall ==
  \E g \in GUIDs, t \in Types :
    LET r == NewQueueActionWithGUID(g, t)
    IN /\ action' = IF r.made THEN r.m ELSE action
       /\ aret' = Returned("NewQueueActionWithGUID", <<g, t>>, r.err, 0)
       /\ requeues' = IF r.made THEN 0 ELSE requeues
       /\ UNCHANGED now
       /\ MgrIdle

SetTypeCall ==
  \E t \in Types :
    LET r == SetType(action, t)
    IN /\ action' = r.m
       /\ aret' = Returned("SetType", <<t>>, r.err, 0)
       /\ UNCHANGED <<now, requeues>>
       /\ MgrIdle

RequeueCall ==
  /\ action.requeueCount < MaxRequeue
  /\ LET r == Requeue(action)
     IN /\ action' = r.m
        /\ aret' = Returned("Requeue", <<>>, "", r.val)
  /\ requeues' = requeues + 1
  /\ UNCHANGED now
  /\ MgrIdle

ResetCountCall ==
  /\ LET r == ResetCount(action)
     IN /\ action' = r.m
        /\ aret' = Returned("ResetCount", <<>>, "", r.val)
  /\ requeues' = 0
  /\ UNCHANGED now
  /\ MgrIdle

SetErrorCall ==
  \E c \in ErrorCodes, msg \in ErrorMessages :
    LET r == SetError(action, c, msg, now)
    IN /\ action' = r.m
       /\ aret' = Returned("SetError", <<c, msg>>, r.err, 0)
       /\ UNCHANGED <<now, requeues>>
       /\ MgrIdle

SetParametersCall ==
  \E p \in Maps :
    LET r == SetParameters(action, p)
    IN /\ action' = r.m
       /\ aret' = Returned("SetParameters", <<p>>, "", 0)
       /\ UNCHANGED <<now, requeues>>
       /\ MgrIdle

SetPropertiesCall ==
  \E p \in Maps :
    LET r == SetProperties(action, p)
    IN /\ action' = r.m
       /\ aret' = Returned("SetProperties", <<p>>, "", 0)
       /\ UNCHANGED <<now, requeues>>
       /\ MgrIdle

MarshalJSONCall ==
  LET r == MarshalJSON(action, now)
  IN /\ action' = r.m
     /\ aret' = [Returned("MarshalJSON", <<>>, r.err, 0) EXCEPT !.out = r.out]
     /\ UNCHANGED <<now, requeues>>
     /\ MgrIdle

\* The payloads a consumer may be handed: what the envelope at hand
\* serializes to, and payloads from elsewhere.
WirePayloads ==
  LET head == ("version" :> 1) @@ ("created" :> UTCTimeStamp(0))
      full == head @@ ("id" :> "g-1") @@ ("type" :> "action:mail")
  IN {NotJSON,
      head @@ ("type" :> "action:mail"),
      head @@ ("id" :> "g-1"),
      head @@ ("id" :> "") @@ ("type" :> "action:mail"),
      full,
      full @@ ("queue" :> ("count" :> 2)),
      full @@ ("errormsg" :> (("count" :> 1) @@ ("errorcode" :> 7)
                              @@ ("errortime" :> UTCTimeStamp(0)) @@ ("errormsg" :> "x")))}

Payloads ==
  WirePayloads \cup (IF IsValid(action) THEN {MarshalJSON(action, now).out} ELSE {})

\* The receiver is a new envelope.
UnmarshalJSONCall ==
  \E b \in Payloads :
    LET r == UnmarshalJSON(ZeroQueueAction, b)
    IN /\ aret' = [Returned("UnmarshalJSON", <<>>, r.err, 0) EXCEPT !.data = b, !.rcv = r.m]
       /\ UNCHANGED <<action, now, requeues>>
       /\ MgrIdle

EnvelopeInit ==
  /\ MgrInit
  /\ up = {}
  /\ EnvInit
  /\ MsgInit
  /\ RaceInit

EnvelopeNext ==
  \/ Tick
  \/ NewQueueActionCall
  \/ SetTypeCall
  \/ RequeueCall
  \/ ResetCountCall
  \/ SetErrorCall
  \/ SetParametersCall
  \/ SetPropertiesCall
  \/ MarshalJSONCall
  \/ UnmarshalJSONCall

SpecEnvelope == EnvelopeInit /\ [][EnvelopeNext]_vars

\* ------------------------------------- actions on the email / invitation
MsgIdle == UNCHANGED <<mgrVars, envVars, raceVars>>

MailGuids == {"", "G-1"}
EmailTypes == {"", "news"}
TemplateNames == {"", "Welcome"}
Addresses == {"", "A@B.c"}
Locales == {"", "pt_PT"}
Codes == {"", " AbC "}
UserNames == {" ", "Ann"}
ObjectNames == {" ", "Vault"}
ObjectTypes == {"", "Org"}
Expirations == {2}
DirectParameters == {<<"expiration", ToJSONTimeStamp(1)>>}

\* a stack overflow is fatal: the program has ended
Running == mret.val # StackOverflow

Construct(op, arg, r) ==
  /\ Running
  /\ mail' = IF r.err = "" THEN r.m ELSE mail
  /\ written' = IF r.err = "" THEN {} ELSE written
  /\ mret' = Mailed(op, arg, r.err, "")
  /\ MsgIdle

Setter(op, arg, r) ==
  /\ Running
  /\ mail' = r.m
  /\ written' = IF r.err = "" THEN written \cup {op} ELSE written
  /\ mret' = Mailed(op, arg, r.err, "")
  /\ MsgIdle

Getter(op, val) ==
  /\ Running
  /\ mret' = Mailed(op, <<>>, "", val)
  /\ UNCHANGED <<mail, written>>
  /\ MsgIdle

NewEmailMessageCall ==
  \E guid \in MailGuids, st \in EmailTypes, template \in TemplateNames :
    Construct("NewEmailMessageWithGUID", <<guid, st, template>>,
              NewEmailMessageWithGUID(guid, st, template))

NewInviteMessageCall ==
  \E guid \in MailGuids, ot \in ObjectTypes, code \in Codes :
    Construct("NewInviteMessageWithGUID", <<guid, ot, code>>,
              NewInviteMessageWithGUID(guid, ot, code))

SetTemplateCall ==
  \E t \in TemplateNames : Setter("SetTemplate", <<t>>, SetTemplate(mail, t))

SetToCall ==
  \E to \in Addresses : Setter("SetTo", <<to>>, SetTo(mail, to))

SetLocaleCall ==
  \E l \in Locales, outcome \in ClearOutcomes :
    Setter("SetLocale", <<l>>, SetLocale(mail, l, outcome))

SetCodeCall ==
  \E code \in Codes : Setter("SetCode", <<code>>, SetCode(mail, code))

SetByUserCall ==
  \E name \in UserNames : Setter("SetByUser", <<name>>, SetByUser(mail, name))

SetObjectNameCall ==
  \E name \in ObjectNames : Setter("SetObjectName", <<name>>, SetObjectName(mail, name))

SetExpirationCall ==
  \E t \in Expirations : Setter("SetExpiration", <<ToString(t)>>, SetExpiration(mail, t))

SetParameterCall ==
  \E d \in DirectParameters : Setter("SetParameter", d, SetParameter(mail, d[1], d[2]))

ExpirationCall ==
  \E miss \in GetMisses : Getter("Expiration", Expiration(mail, miss))

EmailIsValidCall == Getter("EmailMessage.IsValid", EmailMessageIsValid(mail))

InviteIsValidCall ==
  \E miss \in GetMisses : Getter("InviteMessage.IsValid", InviteMessageIsValid(mail, miss))

MessageInit ==
  /\ MgrInit
  /\ up = {}
  /\ EnvInit
  /\ MsgInit
  /\ RaceInit

MessageNext ==
  \/ NewEmailMessageCall
  \/ NewInviteMessageCall
  \/ SetTemplateCall
  \/ SetToCall
  \/ SetLocaleCall
  \/ SetCodeCall
  \/ SetByUserCall
  \/ SetObjectNameCall
  \/ SetExpirationCall
  \/ SetParameterCall
  \/ ExpirationCall
  \/ EmailIsValidCall
  \/ InviteIsValidCall

SpecMessage == MessageInit /\ [][MessageNext]_vars

\* ----------------------------------- OpenChannel by callers not serialized
\* OpenChannel in the steps between which another caller can run: the tests
\* of the connection and of the cache (enter), the creation of the map and
\* connection.Channel() (open), the write into the map (store).
RaceIdle == UNCHANGED <<envVars, msgVars>>
Alive == \A p \in Callers : pc[p] # "dead"
Busy(p) == pc[p] \in {"entered", "opened"}
Dead == [p \in Callers |-> "dead"]
PanicNil == "panic: runtime error: invalid memory address or nil pointer dereference"
FatalMapWrites == "fatal error: concurrent map writes"

storeChannelDropped(c, name, ch) == c

storeChannel(c, name, ch) ==
  [c EXCEPT !.channels = [isNil |-> FALSE,
                          map |-> [k \in DOMAIN c.channels.map \cup {name} |->
                                     IF k = name THEN ch ELSE c.channels.map[k]]]]

\* the program has stopped: no caller continues
Stop(op, name, why) ==
  /\ pc' = Dead
  /\ ret' = [op |-> op, arg |-> name, err |-> why, val |-> 0]
  /\ calls' = <<>>
  /\ UNCHANGED <<connection, channels, servers, prefix, queue, up,
                 liveConns, liveChans, declFailed, held, overlap>>

RaceEnter(p) ==
  \E name \in ChannelNames :
    /\ Alive /\ pc[p] = "idle"
    /\ overlap' = (overlap \/ \E q \in Callers \ {p} : Busy(q))
    /\ calls' = <<>>
    /\ IF connection = NoConn
       THEN /\ ret' = [op |-> "OpenChannel", arg |-> name, err |-> ErrNoConnection, val |-> 0]
            /\ UNCHANGED pc
       ELSE IF getChannel(Cur, name) # NoChan
       THEN /\ ret' = [op |-> "OpenChannel", arg |-> name, err |-> "",
                       val |-> getChannel(Cur, name).id]
            /\ UNCHANGED pc
       ELSE /\ ret' = [op |-> "OpenChannel.enter", arg |-> name, err |-> "", val |-> 0]
            /\ pc' = [pc EXCEPT ![p] = "entered"]
    /\ UNCHANGED <<connection, channels, servers, prefix, queue, up,
                   liveConns, liveChans, declFailed, held>>
    /\ RaceIdle

RaceOpen(p) ==
  \E name \in ChannelNames, ok \in BOOLEAN :
    /\ Alive /\ pc[p] = "entered"
    /\ RaceIdle
    /\ IF connection = NoConn
       THEN Stop("OpenChannel.open", name, PanicNil)
       ELSE LET m == IF channels.isNil THEN EmptyMap ELSE channels.map
                ch == [id |-> newHandle(usedChans(Cur)), conn |-> connection.id]
            IN /\ channels' = [isNil |-> FALSE, map |-> m]
               /\ IF ok
                  THEN /\ Cardinality(liveChans) < MaxChans
                       /\ liveChans' = liveChans \cup {ch}
                       /\ held' = [held EXCEPT ![p] = ch]
                       /\ pc' = [pc EXCEPT ![p] = "opened"]
                       /\ calls' = <<Ev("connection.Channel", name, ch.id, TRUE, {}, "")>>
                       /\ ret' = [op |-> "OpenChannel.open", arg |-> name, err |-> "", val |-> ch.id]
                  ELSE /\ pc' = [pc EXCEPT ![p] = "idle"]
                       /\ calls' = <<Ev("connection.Channel", name, 0, FALSE, {}, "")>>
                       /\ ret' = [op |-> "OpenChannel", arg |-> name, err |-> ErrTransport, val |-> 0]
                       /\ UNCHANGED <<liveChans, held>>
               /\ UNCHANGED <<connection, servers, prefix, queue, up,
                              liveConns, declFailed, overlap>>

RaceStore(p) ==
  \E name \in ChannelNames :
    /\ Alive /\ pc[p] = "opened"
    /\ RaceIdle
    /\ IF channels.isNil
       THEN Stop("OpenChannel.store", name, PanicNil)
       ELSE /\ channels' = storeChannel(Cur, name, held[p]).channels
            /\ pc' = [pc EXCEPT ![p] = "idle"]
            /\ held' = [held EXCEPT ![p] = NoChan]
            /\ calls' = <<>>
            /\ ret' = [op |-> "OpenChannel", arg |-> name, err |-> "", val |-> held[p].id]
            /\ UNCHANGED <<connection, servers, prefix, queue, up,
                           liveConns, liveChans, declFailed, overlap>>

\* two writes into the map at the same time: the runtime may detect them
RaceFatal ==
  \E name \in ChannelNames :
    /\ Alive
    /\ \E p, q \in Callers : p # q /\ pc[p] = "opened" /\ pc[q] = "opened"
    /\ ~channels.isNil
    /\ RaceIdle
    /\ Stop("OpenChannel.store", name, FatalMapWrites)

RaceClose ==
  /\ Alive
  /\ LET f(o, cf, nf) == CloseConnection(Cur, o, cf, nf)
     IN \E r \in CloseOutcomes(f) : InstallManager(r, "CloseConnection", "")
  /\ overlap' = (overlap \/ \E q \in Callers : Busy(q))
  /\ UNCHANGED <<pc, held>>

RaceOpenConnection ==
  /\ Alive
  /\ LET r == OpenConnection(Cur, up)
     IN WithinBounds(r) /\ InstallManager(r, "OpenConnection", "")
  /\ overlap' = (overlap \/ \E q \in Callers : Busy(q))
  /\ UNCHANGED <<pc, held>>

\* a Connected manager: the server list set and the connection opened
Connected ==
  OpenConnection([connection |-> NoConn, channels |-> NilChannels,
                  servers |-> <<srvAlpha>>, prefix |-> "", queue |-> "",
                  liveConns |-> {}, liveChans |-> {}, declFailed |-> {},
                  calls |-> <<>>, err |-> "", val |-> 0], URIs)

RaceStart ==
  /\ connection = Connected.connection
  /\ channels = Connected.channels
  /\ servers = Connected.servers
  /\ prefix = ""
  /\ queue = ""
  /\ up = URIs
  /\ liveConns = Connected.liveConns
  /\ liveChans = {}
  /\ declFailed = {}
  /\ calls = <<>>
  /\ ret = [op |-> "OpenConnection", arg |-> "", err |-> "", val |-> 0]
  /\ EnvInit
  /\ MsgInit
  /\ RaceInit

RaceNext ==
  \/ \E p \in Callers : RaceEnter(p)
  \/ \E p \in Callers : RaceOpen(p)
  \/ \E p \in Callers : RaceStore(p)
  \/ RaceFatal
  \/ RaceClose
  \/ RaceOpenConnection

SpecRace == RaceStart /\ [][RaceNext]_vars

\* ================================================================ claims
IsOp(r, names) == r.op \in names
Dials(log) == [i \in 1..Len(log) |-> log[i].target]
OnlyDials(log) == \A i \in 1..Len(log) : log[i].call = "dial"
Buildable(con) == queueURI(con).err = ""
ReachableAt(s, u) == {i \in 1..Len(s) : Buildable(s[i]) /\ queueURI(s[i]).uri \in u}
FirstReachable(s, u) == CHOOSE i \in ReachableAt(s, u) : \A j \in ReachableAt(s, u) : i <= j

\* the dials a first-to-last failover makes: buildable candidates in list
\* order, up to and including the first one the transport accepts
RECURSIVE failoverDials(_, _, _)
failoverDials(s, u, i) ==
  IF i > Len(s) THEN <<>>
  ELSE IF ~Buildable(s[i]) THEN failoverDials(s, u, i + 1)
  ELSE IF queueURI(s[i]).uri \in u THEN <<queueURI(s[i]).uri>>
  ELSE <<queueURI(s[i]).uri>> \o failoverDials(s, u, i + 1)

ManagerUnchanged ==
  UNCHANGED <<connection, channels, servers, prefix, queue, liveConns, liveChans>>

\* C1: OpenConnection on a manager without a connection and with a non-empty
\* server list succeeds exactly when some candidate is reachable, then holds
\* the connection dialed for the first reachable candidate in list order;
\* when none is reachable it fails with "Unable to Connect" and the manager
\* stays without a connection.
C1_OpenHoldsFirstReachable ==
  [][(ret'.op = "OpenConnection" /\ connection = NoConn /\ servers # <<>>) =>
       IF ReachableAt(servers, up) # {}
       THEN /\ ret'.err = ""
            /\ connection' # NoConn
            /\ connection'.uri = queueURI(servers[FirstReachable(servers, up)]).uri
       ELSE /\ ret'.err = ErrUnableToConnect
            /\ connection' = NoConn]_vars

\* C2: one OpenConnection call dials the buildable candidates strictly in
\* list order, each at most once, skips unbuildable candidates without a
\* dial, and makes no dial after the first successful one.
C2_DialsInListOrderOnce ==
  [][(ret'.op = "OpenConnection" /\ connection = NoConn) =>
       /\ OnlyDials(calls')
       /\ Dials(calls') = failoverDials(servers, up, 1)]_vars

\* C3: OpenConnection with an empty server list fails with "No Connection
\* Settings", makes no transport call and leaves the manager disconnected.
C3_EmptyListNoDial ==
  [][(ret'.op = "OpenConnection" /\ servers = <<>>) =>
       /\ ret'.err = ErrNoSettings
       /\ ret'.val = 0
       /\ calls' = <<>>
       /\ connection' = NoConn
       /\ ManagerUnchanged]_vars

C3_Witness ==
  /\ ret.op = "OpenConnection"
  /\ servers = <<>>
  /\ ret.err = ErrNoSettings
  /\ connection = NoConn

\* C4: OpenConnection on a manager that holds a connection returns that
\* connection, makes no transport call and changes neither the connection,
\* the channel cache nor the configuration; every successful OpenConnection
\* returns the connection the manager holds afterwards.
C4_OpenIdempotent ==
  [][(ret'.op = "OpenConnection") =>
       /\ connection # NoConn =>
            /\ ret'.err = ""
            /\ ret'.val = connection.id
            /\ calls' = <<>>
            /\ ManagerUnchanged
       /\ ret'.err = "" => (connection' # NoConn /\ ret'.val = connection'.id)]_vars

C4_Witness ==
  /\ ret.op = "OpenConnection"
  /\ ret.err = ""
  /\ calls = <<>>
  /\ connection # NoConn
  /\ ret.val = connection.id
  /\ CachedKeys # {}

\* C5: the channel cache has entries only while a connection is held, every
\* cached channel is open and was opened on the connection now held, and a
\* channel returned by OpenChannel or OpenQueueChannel is such a channel.
C5_CacheOwnedByConnection ==
  /\ connection = NoConn => CachedKeys = {}
  /\ connection # NoConn => connection.id \in liveConns
  /\ \A k \in CachedKeys :
       /\ channels.map[k].conn = connection.id
       /\ channels.map[k] \in liveChans
  /\ (ret.op \in {"OpenChannel", "OpenQueueChannel"} /\ ret.val # 0) =>
       \E k \in CachedKeys : channels.map[k].id = ret.val

C5_Witness ==
  /\ ret.op = "OpenQueueChannel"
  /\ ret.val # 0
  /\ Cardinality(CachedKeys) = 2
  /\ \A k \in CachedKeys : channels.map[k].conn = connection.id

\* C6: after CloseConnection the manager holds no connection and the channel
\* cache is empty, whatever the channel closes and the connection close
\* reported; the call returns an error exactly when the connection close
\* reported one.
C6_CloseAlwaysInvalidates ==
  ret.op = "CloseConnection" =>
    /\ connection = NoConn
    /\ channels = NilChannels
    /\ ret.err # "" <=> \E i \in 1..Len(calls) :
                          calls[i].call = "connection.Close" /\ ~calls[i].ok

C6_Witness ==
  /\ ret.op = "CloseConnection"
  /\ ret.err = ErrTransport
  /\ \E i \in 1..Len(calls) : calls[i].call = "channel.Close" /\ ~calls[i].ok
  /\ connection = NoConn

\* C7: CloseConnection on a manager that holds a connection closes every
\* cached channel, each once, going on after a channel close that failed,
\* and closes the connection after all of them.
C7_CloseEveryChannelThenConnection ==
  [][(ret'.op = "CloseConnection" /\ connection # NoConn) =>
       LET n == Cardinality(CachedKeys)
       IN /\ Len(calls') = n + 1
          /\ \A i \in 1..n : calls'[i].call = "channel.Close"
          /\ {calls'[i].target : i \in 1..n} = CachedKeys
          /\ \A i \in 1..n : calls'[i].h = channels.map[calls'[i].target].id
          /\ calls'[n + 1].call = "connection.Close"
          /\ calls'[n + 1].h = connection.id]_vars

C7_Witness ==
  /\ ret.op = "CloseConnection"
  /\ Len(calls) = 3
  /\ calls[1].call = "channel.Close" /\ ~calls[1].ok
  /\ calls[2].call = "channel.Close"
  /\ calls[3].call = "connection.Close"

\* C8: SetPrefix and SetConnection on a manager that holds a connection close
\* every cached channel and the connection, leave the manager without a
\* connection and with an empty cache, and store the new prefix or list.
C8_SetPrefixServersCloseFirst ==
  [][(ret'.op \in {"SetPrefix", "SetConnection"} /\ connection # NoConn) =>
       /\ connection' = NoConn
       /\ channels' = NilChannels
       /\ \A k \in CachedKeys :
            /\ channels.map[k] \notin liveChans'
            /\ \E i \in 1..Len(calls') :
                 calls'[i].call = "channel.Close" /\ calls'[i].h = channels.map[k].id
       /\ connection.id \notin liveConns'
       /\ calls'[Len(calls')].call = "connection.Close"
       /\ calls'[Len(calls')].h = connection.id
       /\ ret'.op = "SetPrefix" => (prefix' = ret'.arg /\ servers' = servers)
       /\ ret'.op = "SetConnection" => (servers' = ret'.arg /\ prefix' = prefix)]_vars

C8_Witness ==
  /\ ret.op = "SetPrefix"
  /\ prefix = "pre"
  /\ connection = NoConn
  /\ \E i \in 1..Len(calls) : calls[i].call = "channel.Close"
  /\ calls[Len(calls)].call = "connection.Close"

\* C9: after SetDefaultQueue the manager holds no connection and no cached
\* channel (a connection held before the call was fully closed first).
C9_SetDefaultQueueClosesFirst ==
  ret.op = "SetDefaultQueue" => (connection = NoConn /\ CachedKeys = {})

\* C10: OpenChannel(name) returns the cached channel without a transport call
\* when name is cached; else fails with "NO Connection Established" and
\* changes nothing when no connection is held; else opens exactly one
\* transport channel on the held connection and caches it under name, or,
\* when that open fails, returns the error and adds no cache entry.
C10_OpenChannelContract ==
  [][(ret'.op = "OpenChannel") =>
       LET name == ret'.arg
       IN IF name \in CachedKeys
          THEN /\ ret'.err = ""
               /\ ret'.val = channels.map[name].id
               /\ calls' = <<>>
               /\ ManagerUnchanged
          ELSE IF connection = NoConn
          THEN /\ ret'.err = ErrNoConnection
               /\ ret'.val = 0
               /\ calls' = <<>>
               /\ ManagerUnchanged
          ELSE /\ Len(calls') = 1
               /\ calls'[1].call = "connection.Channel"
               /\ connection' = connection
               /\ \A k \in CachedKeys : k \in CachedKeys' /\ channels'.map[k] = channels.map[k]
               /\ IF calls'[1].ok
                  THEN /\ ret'.err = ""
                       /\ CachedKeys' = CachedKeys \cup {name}
                       /\ channels'.map[name] = [id |-> ret'.val, conn |-> connection.id]
                       /\ channels'.map[name] \notin liveChans
                       /\ liveChans' = liveChans \cup {channels'.map[name]}
                  ELSE /\ ret'.err # ""
                       /\ ret'.val = 0
                       /\ CachedKeys' = CachedKeys
                       /\ liveChans' = liveChans]_vars

C10_Witness ==
  /\ ret.op = "OpenChannel"
  /\ ret.err = ErrTransport
  /\ connection # NoConn
  /\ "ctl" \notin CachedKeys
  /\ Len(calls) = 1 /\ ~calls[1].ok

\* the naming policy as the specification states it
ResolvedName(d, n) == IF n = "" THEN d ELSE n
EffectiveName(p, d, n) ==
  IF p = "" THEN ResolvedName(d, n) ELSE p \o "-" \o ResolvedName(d, n)
QueueKey(a) == a.name \o "." \o EffectiveName(prefix, queue, a.q)
CallsOf(log, call) == {i \in 1..Len(log) : log[i].call = call}
NoCloseIn(log) ==
  CallsOf(log, "connection.Close") = {} /\ CallsOf(log, "channel.Close") = {}

\* C11: OpenQueueChannel keeps its channel under purpose + "." + effective
\* queue name: a call whose key is cached returns the cached handle and opens
\* no transport channel, a call that returns a handle leaves that handle
\* cached under the key, a call opens at most one transport channel, and
\* cached entries stay as they are while nothing is closed; so calls with
\* the same purpose and the same effective name ("" or the default name
\* spelled out) get the same handle from one transport channel.
C11_QueueChannelCompositeKey ==
  [][/\ (ret'.op = "OpenQueueChannel" /\ ResolvedName(queue, ret'.arg.q) # "") =>
          LET key == QueueKey(ret'.arg)
          IN /\ key \in CachedKeys =>
                  /\ ret'.err = ""
                  /\ ret'.val = channels.map[key].id
                  /\ calls' = <<>>
                  /\ ManagerUnchanged
             /\ Cardinality(CallsOf(calls', "connection.Channel")) <= 1
             /\ ret'.val # 0 => (key \in CachedKeys' /\ channels'.map[key].id = ret'.val)
             /\ \A h \in liveChans' \ liveChans : key \in CachedKeys' /\ channels'.map[key] = h
     /\ NoCloseIn(calls') =>
          \A k \in CachedKeys : k \in CachedKeys' /\ channels'.map[k] = channels.map[k]]_vars

C11_Witness ==
  /\ ret.op = "OpenQueueChannel"
  /\ ret.arg.q = "work"
  /\ queue = "work"
  /\ prefix = "pre"
  /\ calls = <<>>
  /\ "pub.pre-work" \in CachedKeys
  /\ ret.val = channels.map["pub.pre-work"].id

\* C12: OpenQueueChannel issues a queue declaration exactly when declare is
\* true and the call itself opened the channel; the declaration names the
\* effective queue name on the new channel, durable, not auto-delete, not
\* exclusive.
C12_DeclareOnlyOnNewChannel ==
  [][(ret'.op = "OpenQueueChannel") =>
       LET decl == CallsOf(calls', "channel.QueueDeclare")
           opened == {i \in CallsOf(calls', "connection.Channel") : calls'[i].ok}
       IN /\ decl # {} <=> (ret'.arg.create /\ opened # {})
          /\ Cardinality(decl) <= 1
          /\ \A i \in decl :
               /\ i = Len(calls')
               /\ calls'[i].target = EffectiveName(prefix, queue, ret'.arg.q)
               /\ calls'[i].flags = {"durable"}
               /\ \E j \in opened : j < i /\ calls'[j].h = calls'[i].h]_vars

C12_Witness ==
  /\ ret.op = "OpenQueueChannel"
  /\ ret.arg.create
  /\ ret.err = ""
  /\ Len(calls) = 2
  /\ calls[1].call = "connection.Channel"
  /\ calls[2].call = "channel.QueueDeclare" /\ calls[2].ok
  /\ calls[2].target = "pre-work"

\* C13: when the queue declaration in OpenQueueChannel fails the call returns
\* the error and no handle, closes neither a channel nor the connection, and
\* leaves the channel it opened cached under the composite key; a later
\* OpenQueueChannel for that key gets that channel.
C13_DeclareFailureKeepsChannel ==
  [][(ret'.op = "OpenQueueChannel") =>
       LET key == QueueKey(ret'.arg)
       IN /\ \A i \in CallsOf(calls', "channel.QueueDeclare") :
               ~calls'[i].ok =>
                 /\ ret'.err = ErrTransport
                 /\ ret'.val = 0
                 /\ NoCloseIn(calls')
                 /\ connection' = connection
                 /\ liveConns' = liveConns
                 /\ liveChans \subseteq liveChans'
                 /\ key \in CachedKeys'
                 /\ channels'.map[key].id = calls'[i].h
                 /\ channels'.map[key] \in liveChans'
                 /\ channels'.map[key] \in declFailed'
          /\ (key \in CachedKeys /\ channels.map[key] \in declFailed) =>
               (ret'.err = "" /\ ret'.val = channels.map[key].id)]_vars

C13_Witness ==
  /\ ret.op = "OpenQueueChannel"
  /\ ret.err = ErrTransport
  /\ Len(calls) = 2
  /\ calls[2].call = "channel.QueueDeclare" /\ ~calls[2].ok
  /\ "pub.work" \in CachedKeys
  /\ channels.map["pub.work"].id = calls[2].h

\* C14 (as claimed): after a declaration has failed, an OpenQueueChannel call
\* for the same purpose and queue with declare = true issues the declaration
\* again on the cached channel.
C14_DeclareRetried ==
  [][(/\ ret'.op = "OpenQueueChannel"
      /\ ret'.arg.create
      /\ ResolvedName(queue, ret'.arg.q) # ""
      /\ QueueKey(ret'.arg) \in CachedKeys
      /\ channels.map[QueueKey(ret'.arg)] \in declFailed) =>
       \E i \in CallsOf(calls', "channel.QueueDeclare") :
         calls'[i].h = channels.map[QueueKey(ret'.arg)].id]_vars

\* C14 (amended): after a declaration has failed, an OpenQueueChannel call for
\* the same purpose and queue with declare = true hits the cache: it returns
\* the cached channel without error and makes no transport call, so the
\* declaration is not issued again while the channel stays cached.
C14_DeclareNotRetried ==
  [][(/\ ret'.op = "OpenQueueChannel"
      /\ ret'.arg.create
      /\ ResolvedName(queue, ret'.arg.q) # ""
      /\ QueueKey(ret'.arg) \in CachedKeys
      /\ channels.map[QueueKey(ret'.arg)] \in declFailed) =>
       /\ calls' = <<>>
       /\ ret'.err = ""
       /\ ret'.val = channels.map[QueueKey(ret'.arg)].id
       /\ declFailed' = declFailed
       /\ ManagerUnchanged]_vars

C14_Witness ==
  /\ ret.op = "OpenQueueChannel"
  /\ ret.arg.create
  /\ ResolvedName(queue, ret.arg.q) # ""
  /\ QueueKey(ret.arg) \in CachedKeys
  /\ channels.map[QueueKey(ret.arg)] \in declFailed
  /\ calls = <<>>
  /\ ret.err = ""
  /\ ret.val = channels.map[QueueKey(ret.arg)].id

\* C15: the effective queue name is computed from n = the caller's name, or
\* the configured default when that is empty; an empty n is an error, and
\* then OpenQueueChannel, the publishes and the retrieve fail without a
\* transport call and without a change to the manager; otherwise the name is
\* prefix + "-" + n for a non-empty prefix and n for an empty one, and it is
\* the name the declaration, the publish and the fetch are addressed to.
C15_QueueNaming ==
  [][/\ \A p \in Prefixes, d \in QueueNames, n \in QueueNames :
          LET r == queueName([Cur EXCEPT !.prefix = p, !.queue = d], n)
          IN IF ResolvedName(d, n) = ""
             THEN r.err = ErrMissingQueueName
             ELSE /\ r.err = ""
                  /\ r.name = (IF p = "" THEN ResolvedName(d, n)
                               ELSE p \o "-" \o ResolvedName(d, n))
     /\ IsOp(ret', {"OpenQueueChannel", "QueuePublishString",
                    "QueuePublishJSON", "QueueRetrieve"}) =>
          IF ResolvedName(queue, ret'.arg.q) = ""
          THEN /\ ret'.err = ErrMissingQueueName
               /\ ret'.val = 0
               /\ calls' = <<>>
               /\ ManagerUnchanged
          ELSE /\ ret'.err # ErrMissingQueueName
               /\ \A i \in 1..Len(calls') :
                    calls'[i].call \in {"channel.QueueDeclare", "channel.Publish", "channel.Get"}
                      => calls'[i].target = EffectiveName(prefix, queue, ret'.arg.q)
               /\ \A k \in CachedKeys' \ CachedKeys : k = QueueKey(ret'.arg)]_vars

C15_Witness ==
  /\ ret.op = "QueuePublishString"
  /\ ret.arg.q = ""
  /\ queue = "work"
  /\ prefix = "pre"
  /\ ret.err = ""
  /\ Len(calls) = 2
  /\ calls[2].call = "channel.Publish"
  /\ calls[2].target = "pre-work"
  /\ "pub.pre-work" \in CachedKeys

\* what every publish call keeps to: at most one publish, issued last, to the
\* default exchange with the effective queue name as routing key, neither
\* mandatory nor immediate, on the channel cached under the composite key;
\* no declaration and no close; the call's error is the publish's error, and
\* a failed publish leaves the connection and every cached channel in place
PublishShape ==
  LET pubs == CallsOf(calls', "channel.Publish")
      key == QueueKey(ret'.arg)
  IN /\ Cardinality(pubs) <= 1
     /\ CallsOf(calls', "channel.QueueDeclare") = {}
     /\ NoCloseIn(calls')
     /\ \A i \in pubs :
          /\ i = Len(calls')
          /\ calls'[i].ex = ""
          /\ calls'[i].target = EffectiveName(prefix, queue, ret'.arg.q)
          /\ calls'[i].flags \cap {"mandatory", "immediate"} = {}
          /\ key \in CachedKeys'
          /\ calls'[i].h = channels'.map[key].id
          /\ ret'.err = (IF calls'[i].ok THEN "" ELSE ErrTransport)
          /\ ~calls'[i].ok =>
               /\ connection' = connection
               /\ liveConns' = liveConns
               /\ liveChans \subseteq liveChans'
               /\ \A k \in CachedKeys :
                    k \in CachedKeys' /\ channels'.map[k] = channels.map[k]

\* the call returned before the publish: no queue name, the channel could
\* not be opened, or the message could not be serialized
PublishReturnedEarly ==
  \/ ResolvedName(queue, ret'.arg.q) = ""
  \/ \E i \in CallsOf(calls', "connection.Channel") : ~calls'[i].ok
  \/ ret'.err = ErrMarshal

\* C16 (as claimed): each publish call on a manager that holds a connection
\* makes exactly one transport publish, of the shape above.
C16_PublishExactlyOnce ==
  [][(IsOp(ret', {"QueuePublishString", "QueuePublishJSON"}) /\ connection # NoConn) =>
       /\ Cardinality(CallsOf(calls', "channel.Publish")) = 1
       /\ PublishShape]_vars

\* C16 (amended): a publish call on a manager that holds a connection makes
\* exactly one transport publish of the shape above, unless it returns early
\* with the queue-name error, the channel-open error or the serialization
\* error; then it makes none and returns that error.
C16_PublishOnceUnlessEarlyError ==
  [][(IsOp(ret', {"QueuePublishString", "QueuePublishJSON"}) /\ connection # NoConn) =>
       /\ PublishShape
       /\ CallsOf(calls', "channel.Publish") = {} <=> PublishReturnedEarly
       /\ PublishReturnedEarly =>
            /\ ret'.err \in {ErrMissingQueueName, ErrTransport, ErrMarshal}
            /\ connection' = connection]_vars

C16_Witness ==
  /\ ret.op = "QueuePublishString"
  /\ connection # NoConn
  /\ ret.err = ErrTransport
  /\ Len(calls) = 2
  /\ calls[1].call = "connection.Channel" /\ calls[1].ok
  /\ calls[2].call = "channel.Publish" /\ ~calls[2].ok
  /\ QueueKey(ret.arg) \in CachedKeys
  /\ channels.map[QueueKey(ret.arg)].id = calls[2].h

\* what every retrieve call keeps to: at most one fetch, issued last, on the
\* effective queue name with automatic acknowledgment off, on the channel
\* cached under the composite key; an empty queue gives (nil, nil), a failed
\* fetch (nil, error), a fetched message a delivery; nothing is acknowledged,
\* declared or closed
RetrieveShape ==
  LET gets == CallsOf(calls', "channel.Get")
      key == QueueKey(ret'.arg)
  IN /\ Cardinality(gets) <= 1
     /\ \A i \in 1..Len(calls') : calls'[i].call \in {"connection.Channel", "channel.Get"}
     /\ \A i \in gets :
          /\ i = Len(calls')
          /\ calls'[i].target = EffectiveName(prefix, queue, ret'.arg.q)
          /\ "autoAck" \notin calls'[i].flags
          /\ key \in CachedKeys'
          /\ calls'[i].h = channels'.map[key].id
          /\ calls'[i].answer = "empty" => (ret'.val = 0 /\ ret'.err = "")
          /\ calls'[i].answer = "err" => (ret'.val = 0 /\ ret'.err = ErrTransport)
          /\ calls'[i].answer = "msg" => (ret'.val # 0 /\ ret'.err = "")
     /\ ret'.val # 0 => \E i \in gets : calls'[i].answer = "msg"

\* the call could not get its channel: no queue name, no connection, or the
\* channel could not be opened
RetrieveNoChannel ==
  \/ ResolvedName(queue, ret'.arg.q) = ""
  \/ connection = NoConn
  \/ \E i \in CallsOf(calls', "connection.Channel") : ~calls'[i].ok

\* C17 (as claimed): a retrieve call performs exactly one fetch, of the shape
\* above.
C17_RetrieveExactlyOneFetch ==
  [][(ret'.op = "QueueRetrieve") =>
       /\ Cardinality(CallsOf(calls', "channel.Get")) = 1
       /\ RetrieveShape]_vars

\* C17 (amended): a retrieve call that gets its channel performs exactly one
\* fetch of the shape above; a call that cannot get its channel performs no
\* fetch and returns (nil, error).
C17_RetrieveOneFetchWithChannel ==
  [][(ret'.op = "QueueRetrieve") =>
       /\ RetrieveShape
       /\ CallsOf(calls', "channel.Get") = {} <=> RetrieveNoChannel
       /\ RetrieveNoChannel =>
            /\ ret'.val = 0
            /\ ret'.err \in {ErrMissingQueueName, ErrNoConnection, ErrTransport}]_vars

C17_Witness ==
  /\ ret.op = "QueueRetrieve"
  /\ ret.err = ""
  /\ ret.val = 0
  /\ calls # <<>>
  /\ calls[Len(calls)].call = "channel.Get"
  /\ calls[Len(calls)].answer = "empty"
  /\ calls[Len(calls)].target = "pre-work"

\* C18: ResetConnection closes, then reopens.  On a manager that holds a
\* connection it closes every cached channel, then the held connection, and
\* only then dials; afterwards the cache is empty, and the manager holds a
\* newly dialed connection when some candidate is reachable, otherwise it
\* holds none and the error of the open is returned.  On a manager without
\* a connection it does what OpenConnection does.
C18_ResetClosesThenReopens ==
  [][(ret'.op = "ResetConnection") =>
       IF connection # NoConn
       THEN LET n == Cardinality(CachedKeys)
            IN /\ Len(calls') >= n + 1
               /\ {calls'[i].target : i \in 1..n} = CachedKeys
               /\ \A i \in 1..n :
                    /\ calls'[i].call = "channel.Close"
                    /\ calls'[i].h = channels.map[calls'[i].target].id
               /\ calls'[n + 1].call = "connection.Close"
               /\ calls'[n + 1].h = connection.id
               /\ \A i \in (n + 2)..Len(calls') : calls'[i].call = "dial"
               /\ CachedKeys' = {}
               /\ IF ReachableAt(servers, up) # {}
                  THEN /\ ret'.err = ""
                       /\ connection' # NoConn
                       /\ ret'.val = connection'.id
                       /\ connection'.id \in liveConns'
                       /\ \E i \in (n + 2)..Len(calls') :
                            /\ calls'[i].ok
                            /\ calls'[i].h = connection'.id
                            /\ calls'[i].target = connection'.uri
                  ELSE /\ ret'.err \in {ErrNoSettings, ErrUnableToConnect}
                       /\ ret'.val = 0
                       /\ connection' = NoConn
       ELSE LET r == OpenConnection(Cur, up)
            IN /\ connection' = r.connection
               /\ channels' = r.channels
               /\ liveConns' = r.liveConns
               /\ liveChans' = r.liveChans
               /\ calls' = r.calls
               /\ ret'.err = r.err
               /\ ret'.val = r.val]_vars

\* C19: SetError(code, message) fails with the invalid-code error when
\* code <= 0, fails with the missing-message error when code > 0 and the
\* message is empty, and succeeds for code > 0 with a non-empty message; the
\* envelope then reports that code and that it is in error.
C19_SetErrorValidation ==
  [][(aret'.op = "SetError") =>
       LET c == aret'.arg[1]
           msg == aret'.arg[2]
       IN /\ c <= 0 => (aret'.err = ErrInvalidErrorCode /\ action' = action)
          /\ (c > 0 /\ msg = "") => (aret'.err = ErrMissingErrorMessage /\ action' = action)
          /\ (c > 0 /\ msg # "") =>
               /\ aret'.err = ""
               /\ ErrorCode(action') = c
               /\ ErrorMessage(action') = msg
               /\ IsError(action')]_vars

ErrorTriple(m) == <<m.errorCode, m.errorMessage, m.errorTime>>
ErrorTripleConsistent(m) ==
  \/ m.errorCode = 0 /\ m.errorMessage = "" /\ m.errorTime = ""
  \/ m.errorCode > 0 /\ m.errorMessage # "" /\ m.errorTime # ""

\* C20: the error triple of an envelope changes only through a successful
\* SetError, which sets code, message and time together; a failing SetError,
\* Requeue and ResetCount leave the triple as it is; so after every envelope
\* operation the triple is either all unset or all set with a code > 0.
C20_ErrorTripleAtomic ==
  [][/\ (aret'.op # "NewQueueActionWithGUID" /\ ErrorTriple(action') # ErrorTriple(action)) =>
          /\ aret'.op = "SetError"
          /\ aret'.err = ""
          /\ ErrorTriple(action') = <<aret'.arg[1], aret'.arg[2], UTCTimeStamp(now)>>
     /\ (aret'.op = "SetError" /\ aret'.err # "") => ErrorTriple(action') = ErrorTriple(action)
     /\ aret'.op \in {"Requeue", "ResetCount"} => ErrorTriple(action') = ErrorTriple(action)
     /\ ErrorTripleConsistent(action')]_vars

\* C21: Requeue adds exactly 1 to requeueCount and returns the new value;
\* ResetCount sets it to 0 and returns the value it had; no other operation
\* on the envelope (setters, SetError, serialization) changes it.  So
\* RequeueCount() is the number of Requeue calls since the last ResetCount,
\* or since creation, and is never negative.
C21_RequeueCountCounts ==
  [][/\ aret'.op = "Requeue" =>
          /\ RequeueCount(action') = RequeueCount(action) + 1
          /\ aret'.val = RequeueCount(action')
     /\ aret'.op = "ResetCount" =>
          /\ RequeueCount(action') = 0
          /\ aret'.val = RequeueCount(action)
     /\ aret'.op \in {"SetType", "SetParameters", "SetProperties", "SetError",
                      "MarshalJSON", "UnmarshalJSON", "tick"} =>
          RequeueCount(action') = RequeueCount(action)
     /\ RequeueCount(action') = requeues'
     /\ RequeueCount(action') >= 0]_vars

C21_Witness ==
  /\ aret.op = "Requeue"
  /\ aret.val = 2
  /\ requeues = 2
  /\ RequeueCount(action) = 2
  /\ action.errorMessage # ""

\* C22: a valid envelope serializes, and its serialized form has the `queue`
\* key exactly when requeueCount > 0 or errorCode > 0; for an envelope never
\* requeued and without error the key is absent, not an empty object.
C22_QueueBlockOnlyWhenUsed ==
  [][(aret'.op = "MarshalJSON") =>
       /\ IsValid(action) <=> aret'.err = ""
       /\ aret'.err = "" =>
            (Has(aret'.out, "queue") <=> (action.requeueCount > 0 \/ action.errorCode > 0))]_vars

\* C23: deserializing the serialized form of a valid envelope gives an
\* envelope with the same id, type, version, parameters and properties, and,
\* when they were set, the same requeue count and the same error code,
\* message and time.
C23_RoundTrip ==
  [][(/\ aret'.op = "UnmarshalJSON"
      /\ IsValid(action)
      /\ aret'.data = MarshalJSON(action, now).out) =>
       LET d == aret'.rcv
       IN /\ aret'.err = ""
          /\ d.guid = action.guid
          /\ d.atype = action.atype
          /\ d.version = action.version
          /\ Version(d) = Version(action)
          /\ d.params = action.params
          /\ d.props = action.props
          /\ action.requeueCount > 0 => RequeueCount(d) = RequeueCount(action)
          /\ action.errorCode > 0 => ErrorTriple(d) = ErrorTriple(action)]_vars

\* C24: deserializing a payload that lacks `id` or `type`, or carries one of
\* them empty, fails, and no successful deserialization leaves an envelope
\* that is not valid; a payload with id and type and without the `queue`
\* block deserializes with requeueCount = 0 and no error set.
C24_RejectsMalformed ==
  [][(aret'.op = "UnmarshalJSON") =>
       LET b == aret'.data
           d == aret'.rcv
       IN /\ (Field(b, "id", "") = "" \/ Field(b, "type", "") = "") => aret'.err # ""
          /\ aret'.err = "" => IsValid(d)
          /\ (Field(b, "id", "") # "" /\ Field(b, "type", "") # "" /\ ~Has(b, "queue")) =>
               /\ aret'.err = ""
               /\ RequeueCount(d) = 0
               /\ ErrorCode(d) = 0
               /\ ~IsError(d)]_vars

\* C25: `created` is set once: an operation on the envelope never changes a
\* value it has, and a serialization that finds it unset sets it on the
\* envelope, so that the serialized form carries the envelope's value and
\* every later serialization carries the same one.
C25_CreatedSetOnce ==
  [][/\ (aret'.op # "NewQueueActionWithGUID" /\ action.created # "") =>
          action'.created = action.created
     /\ (aret'.op = "MarshalJSON" /\ aret'.err = "") =>
          /\ action'.created # ""
          /\ aret'.out["created"] = action'.created]_vars

\* C26: EmailMessage.IsValid always terminates with an answer, and the
\* answer is true exactly when the base message is valid (id and type not
\* empty) and both a template and a "to" address are set; in particular it is
\* never true for a message whose base predicate is false.
C26_EmailValidityLayered ==
  [][ (mret'.op = "EmailMessage.IsValid") =>
        /\ mret'.val \in {"true", "false"}
        /\ (mret'.val = "true") <=>
             (ActionMessageIsValid(mail) /\ Template(mail) # "" /\ To(mail) # "")
    ]_vars

\* the invitation's own conjuncts of IsValid, whatever Get answers for a
\* path that is missing
InvitePart(m) ==
  /\ Code(m) # ""
  /\ ByUser(m) # ""
  /\ ObjectName(m) # ""
  /\ \A miss \in GetMisses : Expiration(m, miss) \notin {"nil", ExpirationPanic}
InviteSetters == {"SetCode", "SetByUser", "SetObjectName", "SetExpiration"}

\* C27: the invitation's getters read back what its setters wrote: after a
\* successful SetCode(c), Code() is c trimmed and lower-cased; after
\* SetByUser(n), ByUser() is n trimmed; after SetObjectName(n), ObjectName()
\* is n trimmed; after SetExpiration(t), Expiration() is t; and once all four
\* setters have succeeded the invitation's own part of IsValid holds.
C27_InviteReadBack ==
  [][ /\ (mret'.op = "SetCode" /\ mret'.err = "") =>
           Code(mail') = ToLower(TrimSpace(mret'.arg[1]))
      /\ (mret'.op = "SetByUser" /\ mret'.err = "") =>
           ByUser(mail') = TrimSpace(mret'.arg[1])
      /\ (mret'.op = "SetObjectName" /\ mret'.err = "") =>
           ObjectName(mail') = TrimSpace(mret'.arg[1])
      /\ (mret'.op = "SetExpiration" /\ mret'.err = "") =>
           \A miss \in GetMisses : Expiration(mail', miss) = mret'.arg[1]
      /\ (mret'.op \in InviteSetters /\ InviteSetters \subseteq written') =>
           InvitePart(mail')
    ]_vars

\* C28: a successful SetLocale(l) changes the locale and nothing else:
\* Template() and To() answer as before, and Locale() answers l lower-cased,
\* or the default locale when l is empty.
C28_SetLocaleFrame ==
  [][ (mret'.op = "SetLocale" /\ mret'.err = "") =>
        /\ Template(mail') = Template(mail)
        /\ To(mail') = To(mail)
        /\ Locale(mail') = IF mret'.arg[1] = "" THEN DefaultLocale
                           ELSE ToLower(mret'.arg[1])
    ]_vars

\* C29: under serialized use nothing leaks: in every state every transport
\* channel that was opened and not closed is in the channel cache, and the only
\* transport connection that was opened and not closed is the one the manager
\* holds.
C29_NoLeakSerialized ==
  /\ liveChans \subseteq cachedChans(Cur)
  /\ liveConns \subseteq {connection.id}
  /\ (connection = NoConn => liveConns = {})

C29_Witness ==
  /\ ret.op \in {"CloseConnection", "ResetConnection", "SetPrefix", "SetConnection"}
  /\ Cardinality({i \in DOMAIN calls : calls[i].call = "channel.Close"}) = 2
  /\ \E i \in DOMAIN calls : calls[i].call = "channel.Close" /\ ~calls[i].ok
  /\ liveChans = {}

\* channels that are open at the transport, are not in the cache and are not
\* in the hands of a caller that is still inside OpenChannel
Leaked == liveChans \ (cachedChans(Cur) \cup {held[p] : p \in Callers})

\* C30: a transport channel that is open, in no caller's hands and not in the
\* cache, so that no later Close closes it, exists only after calls have
\* overlapped; as long as all calls are serialized there is none.
C30_LeakOnlyWhenOverlapped == (Leaked # {}) => overlap

C30_Witness ==
  /\ ret.op = "CloseConnection"
  /\ Cardinality({i \in DOMAIN calls : calls[i].call = "channel.Close"}) = 1
  /\ connection = NoConn
  /\ \A p \in Callers : pc[p] = "idle"
  /\ Cardinality(liveChans) = 1
  /\ Leaked = liveChans
  /\ overlap

====
